---- MODULE Spec2Model ----
(***************************************************************************)
(* Model of the HeyPico maps backend (Hono application): the in-memory     *)
(* fixed-window rate limiter, the optional API-key gate, the maps routes   *)
(* with their validation and gateway calls, and the global error handler.  *)
(*                                                                         *)
(* JS strings are sequences of tokens; the token "Bearer " stands for the  *)
(* seven characters of the bearer prefix.  An optional value (a header, a  *)
(* query parameter, an env variable) is <<>> when undefined and <<v>> when *)
(* defined.  The clock is Date.now() in milliseconds.                      *)
(***************************************************************************)
EXTENDS Integers, Sequences, FiniteSets, TLC

VARIABLES env, now, store, req, win, spans

vars == <<env, now, store, req, win, spans>>

----------------------------------------------------------------------------
(* Bounds of the model *)

MaxSlots == 2          \* requests that can be in flight together
TickMs == 500          \* granularity of the simulated clock
MaxTicks == 4          \* clock ticks explored
MaxLimit == 2          \* largest RATE_LIMIT_MAX_REQUESTS explored
MaxReviews == 7        \* most reviews in a place-details payload
MaxHtmlLen == 4        \* longest html_instructions explored, in characters

Slots == 1..MaxSlots
MaxTime == TickMs * MaxTicks

----------------------------------------------------------------------------
(* Optional values and JS truthiness of strings *)

None == <<>>
Some(v) == <<v>>

\* a JS string used as a condition: undefined and '' are falsy
Truthy(opt) == opt # None /\ opt[1] # <<>>

\* a || b on optional strings
OrElse(a, b) == IF Truthy(a) THEN a ELSE b

BearerPrefix == "Bearer "

\* String.prototype.replace(tok, ''): removes the first occurrence only
RECURSIVE ReplaceFirst(_, _)
ReplaceFirst(s, tok) ==
  IF s = <<>> THEN <<>>
  ELSE IF Head(s) = tok THEN Tail(s)
  ELSE <<Head(s)>> \o ReplaceFirst(Tail(s), tok)

\* Math.ceil(a / b) for b > 0 (a may be negative)
CeilDiv(a, b) == -((-a) \div b)

Max(a, b) == IF a >= b THEN a ELSE b

----------------------------------------------------------------------------
(* Configuration: env.ts *)

\* the configurations explored: the window is two clock ticks long
WindowChoices == {2 * TickMs}
LimitChoices == 1..MaxLimit

KeyA == <<"a">>
KeyB == <<"b">>

\* env.API_KEY: undefined, the empty string, or a secret
ApiKeyChoices == {None, Some(<<>>), Some(KeyA)}

\* env.GOOGLE_MAPS_API_KEY: a non-empty secret
GoogleKey == <<"AIza-1">>
OtherGoogleKey == <<"AIza-2">>

EnvChoices ==
  [GOOGLE_MAPS_API_KEY : {GoogleKey},
   API_KEY : ApiKeyChoices,
   RATE_LIMIT_WINDOW_MS : WindowChoices,
   RATE_LIMIT_MAX_REQUESTS : LimitChoices]

----------------------------------------------------------------------------
(* Requests *)

Ip1 == <<"10.0.0.1">>
Ip2 == <<"10.0.0.2">>
Unknown == <<"unknown">>

\* rateLimit.ts line 83: x-forwarded-for || x-real-ip || 'unknown'
ClientKey(xff, xri) == OrElse(OrElse(xff, xri), Some(Unknown))[1]

RootPath == <<>>
MapsPath(name) == <<"api", "maps", name>>
HealthPath == MapsPath("health")

Endpoints == {"search-places", "nearby-places", "place-details", "directions"}

\* app.use('/api/*', ...)
MatchesApi(path) == Len(path) >= 1 /\ path[1] = "api"
\* app.use('/api/maps/*', ...)
MatchesMaps(path) == Len(path) >= 2 /\ path[1] = "api" /\ path[2] = "maps"
\* c.req.path.endsWith('/health')
EndsWithHealth(path) == Len(path) >= 1 /\ path[Len(path)] = "health"

\* an endpoint that also answers the paths below it
HandlerOfPrefix(method, path) ==
  IF method = "GET" /\ path = RootPath THEN "root"
  ELSE IF method = "GET" /\ path = HealthPath THEN "health"
  ELSE IF method = "POST" /\ MatchesMaps(path) /\ Len(path) >= 3
          /\ path[3] \in Endpoints THEN path[3]
  ELSE "notFound"

\* the route that answers (method, path): index.ts and routes/maps.ts
HandlerOf(method, path) ==
  IF method = "GET" /\ path = RootPath THEN "root"
  ELSE IF method = "GET" /\ path = HealthPath THEN "health"
  ELSE IF method = "POST" /\ MatchesMaps(path) /\ Len(path) = 3
          /\ path[3] \in Endpoints THEN path[3]
  ELSE "notFound"

Idle ==
  [pc |-> "idle", key |-> <<>>, method |-> "", path |-> <<>>,
   authHeader |-> None, apiKeyQuery |-> None, body |-> "", json |-> None,
   params |-> None, trace |-> <<>>, rl |-> None, calls |-> 0,
   upstream |-> None, log |-> <<>>, thrown |-> None, res |-> None]

\* a c.json(...) response
Json(status, success, data, error) ==
  [status |-> status, success |-> success, data |-> data, error |-> error]

ErrorJson(kind, status) == Json(status, Some(FALSE), None, Some(kind))

----------------------------------------------------------------------------
(* Initial state: the module-level store is empty, no request in flight *)

Init ==
  /\ env \in EnvChoices
  /\ now = 0
  /\ store = <<>>
  /\ req = [r \in Slots |-> Idle]
  /\ win = <<>>
  /\ spans = <<>>

\* health checks kept out of the rate limiter
FirstStageHealthFree(path) ==
  IF MatchesApi(path) /\ ~EndsWithHealth(path) THEN "rateLimiter"
  ELSE IF MatchesMaps(path) THEN "auth" ELSE "route"

\* the first middleware of the chain that matches the path
FirstStage(path) == IF MatchesApi(path) THEN "rateLimiter" ELSE "route"
\* the auth middleware not registered
AfterRateLimiterSkipsAuth(path) == "route"

AfterRateLimiter(path) == IF MatchesMaps(path) THEN "auth" ELSE "route"

\* a request reaches the server
Arrive(r, xff, xri, method, path) ==
  /\ req[r].pc = "idle"
  /\ req' = [req EXCEPT ![r] =
       [Idle EXCEPT !.pc = FirstStage(path), !.key = ClientKey(xff, xri),
                    !.method = method, !.path = path]]
  /\ UNCHANGED <<env, now, store, win, spans>>

----------------------------------------------------------------------------
(* rateLimit.ts *)

MsPerSecond == 1000

HasEntry(ip) == ip \in DOMAIN store

\* a window that is taken to end one window length too late
WindowExpiredLate(entry, t) == t - env.RATE_LIMIT_WINDOW_MS > entry.resetTime

\* line 91: !entry || now > entry.resetTime
WindowExpired(entry, t) == t > entry.resetTime
NeedsNewWindow(ip, t) == ~HasEntry(ip) \/ WindowExpired(store[ip], t)

\* the comparison off by one: > for >=
LimitReachedOffByOne(entry, maxRequests) == entry.count > maxRequests

\* line 98: entry.count >= maxRequests
LimitReached(entry, maxRequests) == entry.count >= maxRequests

\* the request that opens a window is not counted
FreshEntryUncounted(t, windowMs) == [count |-> 0, resetTime |-> t + windowMs]

\* lines 93-96
FreshEntry(t, windowMs) == [count |-> 1, resetTime |-> t + windowMs]

\* an increment that is lost: the entry is written back as it was read
IncrementLost(entry) == entry

\* line 120: entry.count++
Incremented(entry) == [entry EXCEPT !.count = entry.count + 1]

\* a denied check that is counted all the same
DeniedEntryCounted(entry) == [entry EXCEPT !.count = entry.count + 1]

\* lines 98-118: the denied check returns before entry.count++ and writes
\* nothing to the entry
DeniedEntry(entry) == entry

\* line 100
RetryAfter(entry, t) == CeilDiv(entry.resetTime - t, MsPerSecond)

\* one entry shared by every key
PutShared(map, k, v) == [x \in DOMAIN map \cup {k} |-> v]

\* rateLimitStore.set(ip, entry): a Map keyed by the client's address
Put(map, k, v) == [x \in DOMAIN map \cup {k} |-> IF x = k THEN v ELSE map[x]]

\* the window of a key as an observer counts it: it opens with the first
\* check after the previous one has elapsed; n is the number of admissions in it
WindowOpen(ip, t) ==
  ip \in DOMAIN win /\ t <= win[ip].start + env.RATE_LIMIT_WINDOW_MS

ObservedWindow(ip, t, admitted) ==
  LET base == IF WindowOpen(ip, t) THEN win[ip]
              ELSE [start |-> t, n |-> 0]
  IN  [base EXCEPT !.n = base.n + (IF admitted THEN 1 ELSE 0)]

\* the remaining count taken before the increment
RateLimitHeadersBeforeIncrement(maxRequests, entry) ==
  [limit |-> maxRequests,
   remaining |-> Max(0, maxRequests - (entry.count - 1)),
   reset |-> entry.resetTime, retryAfter |-> None]

\* lines 124-126: X-RateLimit-Limit, -Remaining and -Reset set on the context
RateLimitHeaders(maxRequests, entry) ==
  [limit |-> maxRequests,
   remaining |-> Max(0, maxRequests - entry.count),
   reset |-> entry.resetTime, retryAfter |-> None]

\* lines 112-117: the headers of the 429 response, with Retry-After
DeniedHeaders(maxRequests, entry, t) ==
  [limit |-> maxRequests, remaining |-> 0, reset |-> entry.resetTime,
   retryAfter |-> Some(RetryAfter(entry, t))]

RateLimiter(r) ==
  LET ip == req[r].key
      windowMs == env.RATE_LIMIT_WINDOW_MS
      maxRequests == env.RATE_LIMIT_MAX_REQUESTS
  IN
  /\ req[r].pc = "rateLimiter"
  /\ IF NeedsNewWindow(ip, now) THEN
       LET entry == FreshEntry(now, windowMs) IN
       /\ store' = Put(store, ip, entry)
       /\ win' = Put(win, ip, ObservedWindow(ip, now, TRUE))
       /\ req' = [req EXCEPT ![r].pc = AfterRateLimiter(req[r].path),
                             ![r].trace = Append(@, "rateLimiter"),
                             ![r].rl = Some(RateLimitHeaders(maxRequests, entry))]
     ELSE IF LimitReached(store[ip], maxRequests) THEN
       /\ store' = Put(store, ip, DeniedEntry(store[ip]))
       /\ win' = Put(win, ip, ObservedWindow(ip, now, FALSE))
       /\ req' = [req EXCEPT ![r].pc = "done",
                             ![r].trace = Append(@, "rateLimiter"),
                             ![r].rl = Some(DeniedHeaders(maxRequests, store[ip], now)),
                             ![r].res = Some(ErrorJson("RATE_LIMIT_EXCEEDED", 429))]
     ELSE
       LET entry == Incremented(store[ip]) IN
       /\ store' = Put(store, ip, entry)
       /\ win' = Put(win, ip, ObservedWindow(ip, now, TRUE))
       /\ req' = [req EXCEPT ![r].pc = AfterRateLimiter(req[r].path),
                             ![r].trace = Append(@, "rateLimiter"),
                             ![r].rl = Some(RateLimitHeaders(maxRequests, entry))]
  /\ UNCHANGED <<env, now>>

\* the admissions of a key in the windowMs milliseconds that end at t, as an
\* observer of the responses records them
RecentAdmissions(ip, t) ==
  LET InSpan(a) == a > t - env.RATE_LIMIT_WINDOW_MS IN
  IF ip \in DOMAIN spans THEN SelectSeq(spans[ip], InSpan) ELSE <<>>

\* the observer notes the outcome of the check of request r
ObserveSpans(r) ==
  spans' = Put(spans, req[r].key,
               IF req'[r].res = None
               THEN Append(RecentAdmissions(req[r].key, now), now)
               ELSE RecentAdmissions(req[r].key, now))

CleanupGraceMs == 60000

\* every entry is swept, also one whose window is open
StaleAlways(entry, t) == TRUE

\* line 138
Stale(entry, t) == t > entry.resetTime + CleanupGraceMs

\* cleanupRateLimitStore, run by setInterval
CleanupRateLimitStore ==
  /\ store' = [ip \in {k \in DOMAIN store : ~Stale(store[k], now)} |-> store[ip]]
  /\ UNCHANGED <<env, now, req, win, spans>>

\* Date.now() moves on by d milliseconds
AdvanceClock(d) ==
  /\ now + d <= MaxTime
  /\ now' = now + d
  /\ UNCHANGED <<env, store, req, win, spans>>

\* the server stays up with no clock tick observed for d milliseconds
SweepHorizon == MaxTime + CleanupGraceMs
LongWait(d) ==
  /\ now + d <= SweepHorizon
  /\ now' = now + d
  /\ UNCHANGED <<env, store, req, win, spans>>

----------------------------------------------------------------------------
(* middleware/auth.ts *)

\* the opt-out forgotten: the key is required even when none is configured
AuthDisabledNever == FALSE

\* line 11: !env.API_KEY
AuthDisabled == ~Truthy(env.API_KEY)

\* the operands of || swapped: the query parameter takes precedence
ProvidedKeyQueryFirst(authHeader, apiKeyQuery) ==
  LET fromHeader == IF authHeader = None THEN None
                    ELSE Some(ReplaceFirst(authHeader[1], BearerPrefix))
  IN  OrElse(apiKeyQuery, fromHeader)

\* line 18: authHeader?.replace('Bearer ', '') || c.req.query('api_key')
ProvidedKey(authHeader, apiKeyQuery) ==
  LET fromHeader == IF authHeader = None THEN None
                    ELSE Some(ReplaceFirst(authHeader[1], BearerPrefix))
  IN  OrElse(fromHeader, apiKeyQuery)

\* the test for a missing key left out: a missing key is compared like any other
ApiKeyAuthNoMissingCheck(authHeader, apiKeyQuery) ==
  LET apiKey == OrElse(IF authHeader = None THEN None
                       ELSE Some(ReplaceFirst(authHeader[1], BearerPrefix)),
                       apiKeyQuery) IN
  IF ~Truthy(env.API_KEY) THEN "next"
  ELSE IF apiKey # env.API_KEY THEN "FORBIDDEN"
  ELSE "next"

\* apiKeyAuth: "next" when the request goes on, else the rejection
ApiKeyAuth(authHeader, apiKeyQuery) ==
  LET apiKey == ProvidedKey(authHeader, apiKeyQuery) IN
  IF AuthDisabled THEN "next"
  ELSE IF ~Truthy(apiKey) THEN "UNAUTHORIZED"
  ELSE IF apiKey # env.API_KEY THEN "FORBIDDEN"
  ELSE "next"

\* the exemption left out
AuthExemptNever(path) == FALSE

\* index.ts lines 228-234: the health exemption
AuthExempt(path) == EndsWithHealth(path)

RejectStatus(kind) == IF kind = "UNAUTHORIZED" THEN 401 ELSE 403

\* the middleware on /api/maps/*; the credentials are what the request carries
AuthGate(r, authHeader, apiKeyQuery) ==
  /\ req[r].pc = "auth"
  /\ IF AuthExempt(req[r].path) THEN
       req' = [req EXCEPT ![r].pc = "route",
                          ![r].authHeader = authHeader,
                          ![r].apiKeyQuery = apiKeyQuery,
                          ![r].trace = Append(@, "authGate")]
     ELSE
       LET verdict == ApiKeyAuth(authHeader, apiKeyQuery) IN
       IF verdict = "next" THEN
         req' = [req EXCEPT ![r].pc = "route",
                            ![r].authHeader = authHeader,
                            ![r].apiKeyQuery = apiKeyQuery,
                            ![r].trace = @ \o <<"authGate", "apiKeyAuth">>]
       ELSE
         req' = [req EXCEPT ![r].pc = "done",
                            ![r].authHeader = authHeader,
                            ![r].apiKeyQuery = apiKeyQuery,
                            ![r].trace = @ \o <<"authGate", "apiKeyAuth">>,
                            ![r].res = Some(ErrorJson(verdict, RejectStatus(verdict)))]
  /\ UNCHANGED <<env, now, store, win, spans>>

----------------------------------------------------------------------------
(* middleware/errorHandler.ts *)

GoogleMapsErrorText == "Google Maps API error"

\* err.message.includes('Google Maps API error')
Includes(message, text) == \E i \in 1..Len(message) : message[i] = text

ErrorHandler(err) ==
  IF err.name = "ZodError" THEN ErrorJson("VALIDATION_ERROR", 400)
  ELSE IF Includes(err.message, GoogleMapsErrorText)
    THEN ErrorJson("GOOGLE_MAPS_ERROR", 502)
  ELSE ErrorJson("INTERNAL_SERVER_ERROR", 500)

\* the message field of the error response
ErrorMessage(err) ==
  IF err.name = "ZodError" THEN <<"Invalid request parameters">>
  ELSE IF Includes(err.message, GoogleMapsErrorText) THEN err.message
  ELSE <<"An unexpected error occurred">>

\* e.path.join('.') for the paths of a flat object schema
JoinPath(path) == IF path = <<>> THEN "" ELSE path[1]

\* the details field: err.issues.map(e => ({path, message})), ZodError only
ErrorDetails(err) ==
  IF err.name = "ZodError"
  THEN Some([i \in 1..Len(err.issues) |->
               [path |-> JoinPath(err.issues[i].path),
                message |-> err.issues[i].message]])
  ELSE None

----------------------------------------------------------------------------
(* types/maps.ts: the request bodies and their Zod schemas *)

FieldNames ==
  {"query", "location", "radius", "type", "placeId", "origin", "destination",
   "mode", "keyword"}

\* JSON scalars
Str(s) == [t |-> "string", s |-> s, n |-> 0]
Num(n) == [t |-> "number", s |-> <<>>, n |-> n]
Null == [t |-> "null", s |-> <<>>, n |-> 0]

\* a string of n characters
Chars(n) == [i \in 1..n |-> "x"]

NoFields == [f \in FieldNames |-> None]

\* the request body: text that is not JSON, a JSON value that is not an
\* object, or an object with some of the fields
Unparseable == [parsed |-> FALSE, object |-> FALSE, f |-> NoFields]
NotAnObject == [parsed |-> TRUE, object |-> FALSE, f |-> NoFields]
Object(f) == [parsed |-> TRUE, object |-> TRUE, f |-> f]

Issue(path, code, message) == [path |-> path, code |-> code, message |-> message]

\* field schemas
ZString(min, tooShort, max, tooLong) ==
  [type |-> "string", optional |-> FALSE, default |-> None, values |-> {},
   min |-> min, tooShort |-> tooShort, max |-> max, tooLong |-> tooLong]
ZOptionalString ==
  [type |-> "string", optional |-> TRUE, default |-> None, values |-> {},
   min |-> None, tooShort |-> "", max |-> None, tooLong |-> ""]
\* the radius has no upper limit
ZRadiusNoMax(default) ==
  [type |-> "number", optional |-> TRUE, default |-> Some(Num(default)),
   values |-> {}, min |-> Some(1),
   tooShort |-> "Number must be greater than or equal to 1",
   max |-> None, tooLong |-> ""]

ZRadius(default) ==
  [type |-> "number", optional |-> TRUE, default |-> Some(Num(default)),
   values |-> {}, min |-> Some(1),
   tooShort |-> "Number must be greater than or equal to 1",
   max |-> Some(50000),
   tooLong |-> "Number must be less than or equal to 50000"]
TravelModes == {<<"driving">>, <<"walking">>, <<"bicycling">>, <<"transit">>}
ZMode ==
  [type |-> "enum", optional |-> TRUE, default |-> Some(Str(<<"driving">>)),
   values |-> TravelModes, min |-> None, tooShort |-> "", max |-> None,
   tooLong |-> ""]

Field(name, schema) == [name |-> name, schema |-> schema]

SearchPlacesSchema ==
  <<Field("query", ZString(Some(1), "Query is required", Some(500), "Query too long")),
    Field("location", ZOptionalString),
    Field("radius", ZRadius(5000)),
    Field("type", ZOptionalString)>>

GetPlaceDetailsSchema ==
  <<Field("placeId", ZString(Some(1), "Place ID is required", None, ""))>>

GetDirectionsSchema ==
  <<Field("origin", ZString(Some(1), "Origin is required", None, "")),
    Field("destination", ZString(Some(1), "Destination is required", None, "")),
    Field("mode", ZMode)>>

GetNearbyPlacesSchema ==
  <<Field("location", ZString(Some(1), "Location is required", None, "")),
    Field("radius", ZRadius(1500)),
    Field("type", ZOptionalString),
    Field("keyword", ZOptionalString)>>

SchemaOf(endpoint) ==
  CASE endpoint = "search-places" -> SearchPlacesSchema
    [] endpoint = "nearby-places" -> GetNearbyPlacesSchema
    [] endpoint = "place-details" -> GetPlaceDetailsSchema
    [] endpoint = "directions" -> GetDirectionsSchema

Accepted(v) == [issues |-> <<>>, value |-> v]
Refused(issue) == [issues |-> <<issue>>, value |-> None]

\* the checks of one field schema on a value that is present
ParsePresent(schema, name, v) ==
  IF schema.type = "enum" THEN
    IF v.t # "string" THEN Refused(Issue(<<name>>, "invalid_type", "Expected string"))
    ELSE IF v.s \notin schema.values
      THEN Refused(Issue(<<name>>, "invalid_enum_value", "Invalid enum value"))
    ELSE Accepted(Some(v))
  ELSE IF v.t # schema.type THEN
    Refused(Issue(<<name>>, "invalid_type",
                  IF schema.type = "string" THEN "Expected string"
                  ELSE "Expected number"))
  ELSE
    LET size == IF schema.type = "string" THEN Len(v.s) ELSE v.n IN
    IF schema.min # None /\ size < schema.min[1]
      THEN Refused(Issue(<<name>>, "too_small", schema.tooShort))
    ELSE IF schema.max # None /\ size > schema.max[1]
      THEN Refused(Issue(<<name>>, "too_big", schema.tooLong))
    ELSE Accepted(Some(v))

\* one key of z.object: .default() replaces undefined, .optional() lets it pass
ParseField(schema, name, v) ==
  IF v = None THEN
    IF schema.default # None THEN ParsePresent(schema, name, schema.default[1])
    ELSE IF schema.optional THEN Accepted(None)
    ELSE Refused(Issue(<<name>>, "invalid_type", "Required"))
  ELSE ParsePresent(schema, name, v[1])

RECURSIVE Flatten(_)
Flatten(seqs) == IF seqs = <<>> THEN <<>> ELSE Head(seqs) \o Flatten(Tail(seqs))

\* z.object on an object: every key of the shape is checked and all the
\* issues are collected; keys outside the shape are stripped
ParseShape(schema, body) ==
  LET parsed == [i \in 1..Len(schema) |->
                   ParseField(schema[i].schema, schema[i].name,
                              body.f[schema[i].name])]
  IN [issues |-> Flatten([i \in 1..Len(schema) |-> parsed[i].issues]),
      value |-> [n \in FieldNames |->
                   IF \E i \in 1..Len(schema) : schema[i].name = n
                   THEN parsed[CHOOSE i \in 1..Len(schema) : schema[i].name = n].value
                   ELSE None]]

NotAnObjectIssue == Issue(<<>>, "invalid_type", "Expected object")

\* parsing stops at the first issue
ParseFirstIssueOnly(schema, body) ==
  IF ~body.object THEN [issues |-> <<NotAnObjectIssue>>, value |-> NoFields]
  ELSE LET all == ParseShape(schema, body) IN
       [issues |-> IF all.issues = <<>> THEN <<>> ELSE <<Head(all.issues)>>,
        value |-> all.value]

\* Schema.parse(body)
Parse(schema, body) ==
  IF ~body.object THEN [issues |-> <<NotAnObjectIssue>>, value |-> NoFields]
  ELSE ParseShape(schema, body)

----------------------------------------------------------------------------
(* routes/maps.ts and services/googleMaps.ts *)

SyntaxError == [name |-> "SyntaxError", message |-> <<"Unexpected token">>]
TypeError ==
  [name |-> "TypeError", message |-> <<"Cannot read properties of undefined">>]
ZodError(issues) ==
  [name |-> "ZodError", message |-> <<"invalid input">>, issues |-> issues]

\* new Error(`Google Maps API error: ${status}`)
StatusError(status) ==
  [name |-> "Error", message |-> <<GoogleMapsErrorText, ": ", status>>]

\* the provider's reply: a status, or the HTTP call itself fails (axios throws)
ProviderStatuses == {"OK", "ZERO_RESULTS", "REQUEST_DENIED", "INVALID_REQUEST"}
AxiosError == [name |-> "AxiosError", message |-> <<"Request failed with status code 403">>]

\* ZERO_RESULTS is a failure for every operation
SuccessStatusesOkOnly(op) == {"OK"}

\* the statuses a gateway operation takes for success
SuccessStatuses(op) ==
  IF op \in {"search-places", "nearby-places"} THEN {"OK", "ZERO_RESULTS"}
  ELSE {"OK"}

\* `${x}` of a string that may be undefined
Template(opt) == IF opt = None THEN <<"undefined">> ELSE opt[1]

\* encodeURIComponent, token by token: reserved characters are escaped
EncodeToken(tok) ==
  CASE tok = ":" -> "%3A"
    [] tok = "," -> "%2C"
    [] tok = " " -> "%20"
    [] tok = "() => " -> "()%20%3D%3E%20"
    [] OTHER -> tok
EncodeURIComponent(s) == [i \in 1..Len(s) |-> EncodeToken(s[i])]

\* a coordinate of the payload: a number or a zero-argument accessor
PlainCoord(v) == [kind |-> "number", v |-> v]
AccessorCoord(v) == [kind |-> "function", v |-> v]

\* typeof lat === 'function' ? lat() : lat
CoordValue(c) == IF c = None THEN None ELSE Some(c[1].v)

\* `${lat}`: a function is rendered as its source text
CoordText(c) ==
  IF c = None THEN <<"undefined">>
  ELSE IF c[1].kind = "function" THEN <<"() => ", c[1].v>>
  ELSE <<c[1].v>>

GeneratePlaceUrl(placeId) ==
  <<"https://www.google.com/maps/place/?q=place_id:">> \o Template(placeId)

EmbedQuery(lat, lng, placeId) ==
  IF Truthy(placeId) THEN <<"place_id", ":">> \o placeId[1]
  ELSE CoordText(lat) \o <<",">> \o CoordText(lng)

GenerateEmbedMapUrl(lat, lng, placeId, apiKey) ==
  <<"https://www.google.com/maps/embed/v1/place?key=">> \o apiKey
    \o <<"&q=">> \o EncodeURIComponent(EmbedQuery(lat, lng, placeId))

GenerateDirectionsUrl(origin, destination, mode) ==
  <<"https://www.google.com/maps/dir/?api=1&origin=">>
    \o EncodeURIComponent(origin) \o <<"&destination=">>
    \o EncodeURIComponent(destination)
    \o (IF Truthy(mode) THEN <<"&travelmode=">> \o mode[1] ELSE <<>>)

GenerateEmbedDirectionsUrl(origin, destination, mode, apiKey) ==
  <<"https://www.google.com/maps/embed/v1/directions?key=">> \o apiKey
    \o <<"&origin=">> \o EncodeURIComponent(origin) \o <<"&destination=">>
    \o EncodeURIComponent(destination)
    \o (IF Truthy(mode) THEN <<"&mode=">> \o mode[1] ELSE <<>>)

GeneratePhotoUrl(photoReference, apiKey) ==
  <<"https://maps.googleapis.com/maps/api/place/photo?maxwidth=400&photo_reference=">>
    \o photoReference \o <<"&key=">> \o apiKey

\* place.geometry?.location?.lat and .lng
GeometryLat(place) ==
  IF place.geometry = None \/ place.geometry[1].location = None THEN None
  ELSE place.geometry[1].location[1].lat
GeometryLng(place) ==
  IF place.geometry = None \/ place.geometry[1].location = None THEN None
  ELSE place.geometry[1].location[1].lng

FormatPlaceResult(place, apiKey) ==
  LET placeId == place.place_id
      lat == GeometryLat(place)
      lng == GeometryLng(place)
  IN [placeId |-> placeId,
      name |-> OrElse(place.name, Some(<<"Unknown">>)),
      address |-> OrElse(OrElse(place.formatted_address, place.vicinity),
                         Some(<<"Address not available">>)),
      location |-> [lat |-> CoordValue(lat), lng |-> CoordValue(lng)],
      rating |-> place.rating,
      userRatingsTotal |-> place.user_ratings_total,
      types |-> place.types,
      businessStatus |-> place.business_status,
      priceLevel |-> place.price_level,
      photoUrl |-> IF place.photos # None /\ place.photos[1] # <<>>
                   THEN Some(GeneratePhotoUrl(place.photos[1][1].photo_reference, apiKey))
                   ELSE None,
      googleMapsUrl |-> GeneratePlaceUrl(placeId),
      embedMapUrl |-> GenerateEmbedMapUrl(lat, lng, placeId, apiKey)]

\* the reviews kept by getPlaceDetails
ReviewsKept == 5
SliceReviewsSix(reviews) == SubSeq(reviews, 1, IF Len(reviews) < 6 THEN Len(reviews) ELSE 6)

\* reviews.slice(0, 5)
SliceReviews(reviews) ==
  SubSeq(reviews, 1, IF Len(reviews) < ReviewsKept THEN Len(reviews) ELSE ReviewsKept)

FormatReview(review) ==
  [authorName |-> review.author_name, rating |-> review.rating,
   text |-> review.text, time |-> review.time]   \* Number(n) of a number is n

\* the result of getPlaceDetails on an OK reply
FormatPlaceDetails(place, apiKey) ==
  FormatPlaceResult(place, apiKey) @@
  [phoneNumber |-> place.formatted_phone_number,
   website |-> place.website,
   openingHours |->
     IF place.opening_hours # None
     THEN Some([openNow |-> place.opening_hours[1].open_now,
                weekdayText |-> place.opening_hours[1].weekday_text])
     ELSE None,
   reviews |->
     IF place.reviews = None THEN None
     ELSE LET kept == SliceReviews(place.reviews[1]) IN
          Some([i \in 1..Len(kept) |-> FormatReview(kept[i])])]

\* the tags are left in place
StripHtmlNothing(s) == s

\* html_instructions.replace(/<[^>]*>/g, ''): from left to right, a '<' and
\* everything up to the next '>' is removed; a '<' with no later '>' stays
RECURSIVE StripHtml(_)
StripHtml(s) ==
  IF s = <<>> THEN <<>>
  ELSE IF Head(s) = "<" /\ \E j \in 2..Len(s) : s[j] = ">" THEN
    LET close == CHOOSE j \in 2..Len(s) :
                   s[j] = ">" /\ \A k \in 2..(j - 1) : s[k] # ">"
    IN StripHtml(SubSeq(s, close + 1, Len(s)))
  ELSE <<Head(s)>> \o StripHtml(Tail(s))

FormatStep(step) ==
  [instruction |-> StripHtml(step.html_instructions),
   distance |-> step.distance.text, duration |-> step.duration.text]

\* the result of getDirections on an OK reply: routes[0] and its legs[0]
FormatDirections(params, routes, apiKey) ==
  LET route == routes[1]
      leg == route.legs[1]
      origin == params["origin"][1].s
      destination == params["destination"][1].s
      mode == IF params["mode"] = None THEN None ELSE Some(params["mode"][1].s)
  IN [summary |-> route.summary,
      distance |-> leg.distance, duration |-> leg.duration,
      startAddress |-> leg.start_address, endAddress |-> leg.end_address,
      steps |-> [i \in 1..Len(leg.steps) |-> FormatStep(leg.steps[i])],
      googleMapsUrl |-> GenerateDirectionsUrl(origin, destination, mode),
      embedMapUrl |-> GenerateEmbedDirectionsUrl(origin, destination, mode, apiKey)]

\* routes[0] or its legs[0] is undefined: reading a property of it throws
NoFirstLeg(routes) == routes = <<>> \/ routes[1].legs = <<>>

\* what a gateway operation returns when the reply's status is a success
GatewayResult(op, params, data, apiKey) ==
  CASE op \in {"search-places", "nearby-places"} ->
         [kind |-> "places",
          value |-> [i \in 1..Len(data.results) |->
                       FormatPlaceResult(data.results[i], apiKey)]]
    [] op = "place-details" ->
         [kind |-> "place", value |-> FormatPlaceDetails(data.result, apiKey)]
    [] op = "directions" ->
         [kind |-> "directions",
          value |-> FormatDirections(params, data.routes, apiKey)]

----------------------------------------------------------------------------
(* The provider's payloads *)

\* a place of response.data.results, or response.data.result
Place(placeId, name, address, vicinity, geometry, photos, reviews) ==
  [place_id |-> placeId, name |-> name, formatted_address |-> address,
   vicinity |-> vicinity, geometry |-> geometry, rating |-> Some("4.5"),
   user_ratings_total |-> Some("120"), types |-> Some(<<"cafe">>),
   business_status |-> Some(<<"OPERATIONAL">>), price_level |-> None,
   photos |-> photos, formatted_phone_number |-> None, website |-> None,
   opening_hours |-> Some([open_now |-> TRUE, weekday_text |-> <<>>]),
   reviews |-> reviews]

At(lat, lng) == Some([location |-> Some([lat |-> Some(lat), lng |-> Some(lng)])])

Review(i) ==
  [author_name |-> <<"author", ToString(i)>>, rating |-> i, text |-> <<"fine">>,
   time |-> 1700000000 + i]

Step(html) ==
  [html_instructions |-> html, distance |-> [text |-> <<"0.2 km">>],
   duration |-> [text |-> <<"3 mins">>]]

DirectionsRoute(steps) ==
  [summary |-> <<"A1">>,
   legs |-> <<[distance |-> [text |-> <<"1.2 km">>, value |-> 1200],
               duration |-> [text |-> <<"5 mins">>, value |-> 300],
               start_address |-> <<"A">>, end_address |-> <<"B">>,
               steps |-> steps]>>]

SamplePlace ==
  Place(Some(<<"ChIJ1">>), Some(<<"Cafe">>), Some(<<"1 Main St">>), None,
        At(PlainCoord("48.85"), PlainCoord("2.35")),
        Some(<<[photo_reference |-> <<"ph1">>]>>), Some(<<Review(1)>>))

Data(results, result, routes) ==
  [results |-> results, result |-> result, routes |-> routes]

SampleData ==
  Data(<<SamplePlace>>, SamplePlace,
       <<DirectionsRoute(<<Step(<<"Turn ", "<", "b", ">", "left", "<", "/b", ">">>)>>)>>)

Reply(status, data) == [threw |-> FALSE, status |-> status, data |-> data]
ReplyOf(status) ==
  Reply(status, IF status = "ZERO_RESULTS"
                THEN Data(<<>>, SamplePlace, <<>>) ELSE SampleData)
CallFailed == [threw |-> TRUE, status |-> "", data |-> Data(<<>>, SamplePlace, <<>>)]
Outcomes == {ReplyOf(s) : s \in ProviderStatuses} \cup {CallFailed}

\* the place payloads explored: with and without identifier, name, address,
\* geometry (plain numbers or accessors) and photos
PlaceIds == {None, Some(<<>>), Some(<<"ChIJ1">>)}
Geometries ==
  {None, Some([location |-> None]),
   At(PlainCoord("48.85"), PlainCoord("2.35")),
   At(AccessorCoord("48.85"), AccessorCoord("2.35"))}
PhotoLists == {None, Some(<<>>), Some(<<[photo_reference |-> <<"ph1">>]>>)}
Places ==
  {Place(i, n, a, v, g, ph, None) :
     i \in PlaceIds, n \in {None, Some(<<"Cafe">>)},
     a \in {None, Some(<<"1 Main St">>)}, v \in {None, Some(<<"Main St">>)},
     g \in Geometries, ph \in PhotoLists}

\* n reviews, the newest first
Reviews(n) == [i \in 1..n |-> Review(n + 1 - i)]
DetailsPlaces ==
  {Place(i, Some(<<"Cafe">>), Some(<<"1 Main St">>), None, g, None, rv) :
     i \in PlaceIds, g \in Geometries,
     rv \in {None} \cup {Some(Reviews(n)) : n \in 0..MaxReviews}}

\* html_instructions: every text of at most MaxHtmlLen characters over <, >, x
RECURSIVE Texts(_)
Texts(n) ==
  IF n = 0 THEN {<<>>}
  ELSE Texts(n - 1) \cup
       {Append(t, c) : t \in {u \in Texts(n - 1) : Len(u) = n - 1},
                       c \in {"<", ">", "x"}}
Htmls == Texts(MaxHtmlLen)

\* the replies explored for each operation
RepliesTo(op) ==
  CASE op \in {"search-places", "nearby-places"} ->
         {Reply("OK", Data(<<p>>, SamplePlace, <<>>)) : p \in Places}
         \cup {Reply("OK", Data(<<SamplePlace, p>>, SamplePlace, <<>>)) :
                 p \in {q \in Places : q.place_id = None /\ q.photos = None}}
    [] op = "place-details" ->
         {Reply("OK", Data(<<>>, p, <<>>)) : p \in DetailsPlaces}
    [] op = "directions" ->
         {Reply("OK", Data(<<>>, SamplePlace, <<DirectionsRoute(<<Step(h)>>)>>)) :
            h \in Htmls}
         \cup {Reply("OK", Data(<<>>, SamplePlace,
                                <<DirectionsRoute(<<Step(<<"x">>), Step(<<"<", "x", ">">>)>>)>>)),
               Reply("OK", Data(<<>>, SamplePlace, <<>>))}
    [] OTHER -> {}

\* request bodies: not JSON, {} and a body that every schema accepts
ValidBody ==
  Object([NoFields EXCEPT !["query"] = Some(Str(<<"cafe">>)),
                          !["location"] = Some(Str(<<"48.85", ",", "2.35">>)),
                          !["placeId"] = Some(Str(<<"ChIJ1">>)),
                          !["origin"] = Some(Str(<<"A", " ", "St">>)),
                          !["destination"] = Some(Str(<<"B">>))])
Bodies == {Unparseable, Object(NoFields), ValidBody}

\* values a client may give to a key: absent, '', a string, a number
StringValues == {None, Some(Str(<<>>)), Some(Str(<<"A">>)), Some(Num(7))}
QueryValues == StringValues \cup {Some(Str(Chars(500))), Some(Str(Chars(501)))}
RadiusSamples == {-5, 0, 1, 5000, 50000, 50001}
RadiusValues ==
  {None, Some(Null), Some(Str(<<"10">>))} \cup {Some(Num(n)) : n \in RadiusSamples}
ModeValues ==
  {None, Some(Str(<<"walking">>)), Some(Str(<<"flying">>)), Some(Null)}

SearchBodies ==
  {Object([NoFields EXCEPT !["query"] = q, !["radius"] = rd, !["location"] = l]) :
     q \in QueryValues, rd \in RadiusValues, l \in {None, Some(Str(<<>>)), Some(Num(7))}}
NearbyBodies ==
  {Object([NoFields EXCEPT !["location"] = l, !["radius"] = rd, !["keyword"] = k]) :
     l \in StringValues, rd \in RadiusValues, k \in {None, Some(Null)}}
DetailsBodies == {Object([NoFields EXCEPT !["placeId"] = i]) : i \in StringValues}
DirectionsBodies ==
  {Object([NoFields EXCEPT !["origin"] = o, !["destination"] = d, !["mode"] = m]) :
     o \in StringValues, d \in StringValues, m \in ModeValues}

ValidationBodies ==
  {Unparseable, NotAnObject} \cup SearchBodies \cup NearbyBodies
    \cup DetailsBodies \cup DirectionsBodies

\* the response of index.ts app.get('/')
RootJson == Json(200, None, None, None)

HealthJson == Json(200, Some(TRUE), Some("healthy"), None)

NotFoundJson == ErrorJson("NOT_FOUND", 404)

\* what c.req.json() and Schema.parse(body) make of the request body
Classify(endpoint, body) ==
  IF ~body.parsed THEN "unparseable"
  ELSE IF Parse(SchemaOf(endpoint), body).issues # <<>> THEN "violates schema"
  ELSE "valid"

\* a failed provider call sends the handler back to its start
FailAndRetry(rs, r, err, stages) ==
  IF rs[r].upstream # None THEN [rs EXCEPT ![r].pc = "route"]
  ELSE [rs EXCEPT ![r].pc = "done", ![r].trace = @ \o stages,
                  ![r].thrown = Some(err), ![r].res = Some(ErrorHandler(err))]

\* the errorHandler answers the error thrown by the handler of request r
Fail(rs, r, err, stages) ==
  [rs EXCEPT ![r].pc = "done", ![r].trace = @ \o stages,
             ![r].thrown = Some(err), ![r].res = Some(ErrorHandler(err))]

\* routing: the handler runs up to its first wait on the provider
Route(r, body) ==
  LET h == HandlerOf(req[r].method, req[r].path) IN
  /\ req[r].pc = "route"
  /\ IF h = "root" THEN
       req' = [req EXCEPT ![r].pc = "done", ![r].trace = Append(@, "root"),
                          ![r].res = Some(RootJson)]
     ELSE IF h = "health" THEN
       req' = [req EXCEPT ![r].pc = "done", ![r].trace = Append(@, "health"),
                          ![r].res = Some(HealthJson)]
     ELSE IF h = "notFound" THEN
       req' = [req EXCEPT ![r].pc = "done", ![r].trace = Append(@, "notFound"),
                          ![r].res = Some(NotFoundJson)]
     ELSE
       LET read == [req EXCEPT ![r].body = Classify(h, body),
                               ![r].json = Some(body)]
           validated == Parse(SchemaOf(h), body)
       IN
       IF ~body.parsed THEN req' = Fail(read, r, SyntaxError, <<"json">>)
       ELSE IF validated.issues # <<>> THEN
         req' = Fail(read, r, ZodError(validated.issues), <<"json", "validate">>)
       ELSE
         req' = [read EXCEPT ![r].pc = "gateway",
                             ![r].params = Some(validated.value),
                             ![r].trace = @ \o <<"json", "validate", "gateway">>,
                             ![r].calls = @ + 1]
  /\ UNCHANGED <<env, now, store, win, spans>>

\* the gateway method behind each endpoint
MethodOf(op) ==
  CASE op = "search-places" -> "searchPlaces"
    [] op = "nearby-places" -> "getNearbyPlaces"
    [] op = "place-details" -> "getPlaceDetails"
    [] op = "directions" -> "getDirections"

\* the failure is not logged
HandleErrorSilent(log, method, err) == log

\* handleError: console.error(`[GoogleMapsService.${method}] Error:`, ...)
HandleError(log, method, err) ==
  Append(log, [method |-> method, message |-> err.message])

\* catch (error) { this.handleError(error, method); throw error; }, then the
\* route's catch rethrows and the errorHandler answers
Caught(rs, r, op, err) ==
  Fail([rs EXCEPT ![r].log = HandleError(@, MethodOf(op), err)], r, err, <<>>)

\* the provider call of a gateway operation resolves or rejects
UpstreamReply(r, outcome) ==
  LET op == HandlerOf(req[r].method, req[r].path)
      called == [req EXCEPT ![r].upstream = Some(outcome)]
  IN
  /\ req[r].pc = "gateway"
  /\ IF outcome.threw THEN req' = Caught(called, r, op, AxiosError)
     ELSE IF outcome.status \notin SuccessStatuses(op) THEN
       req' = Caught(called, r, op, StatusError(outcome.status))
     ELSE IF op = "directions" /\ NoFirstLeg(outcome.data.routes) THEN
       req' = Caught(called, r, op, TypeError)
     ELSE
       req' = [called EXCEPT
                 ![r].pc = "done",
                 ![r].res = Some(Json(200, Some(TRUE),
                                      Some(GatewayResult(op, req[r].params[1],
                                                         outcome.data,
                                                         env.GOOGLE_MAPS_API_KEY)),
                                      None))]
  /\ UNCHANGED <<env, now, store, win, spans>>

\* the response has been sent
Respond(r) ==
  /\ req[r].pc = "done"
  /\ req' = [req EXCEPT ![r] = Idle]
  /\ UNCHANGED <<env, now, store, win, spans>>

----------------------------------------------------------------------------
(* The server *)

Methods == {"GET", "POST"}
Paths ==
  {RootPath, HealthPath, <<"api", "nonexistent">>,
   <<"api", "maps", "admin", "health">>,
   <<"api", "maps", "search-places", "health">>} \cup {MapsPath(e) : e \in Endpoints}

\* Authorization headers and api_key parameters a client may send
AuthHeaders ==
  {None, Some(<<>>),
   Some(<<BearerPrefix>> \o KeyA), Some(<<BearerPrefix>> \o KeyB),
   Some(KeyA), Some(KeyB)}
ApiKeyQueries == {None, Some(KeyA), Some(KeyB)}

\* one client, one request at a time, every kind of request
Next ==
  \/ \E m \in Methods, p \in Paths : Arrive(1, Some(Ip1), None, m, p)
  \/ RateLimiter(1) /\ UNCHANGED spans
  \/ \E h \in AuthHeaders, q \in ApiKeyQueries : AuthGate(1, h, q)
  \/ \E b \in Bodies : Route(1, b)
  \/ \E o \in Outcomes : UpstreamReply(1, o)
  \/ Respond(1)
  \/ CleanupRateLimitStore
  \/ AdvanceClock(TickMs)

Spec == Init /\ [][Next]_vars

\* requests of one client in flight together: health checks and searches
NextConcurrent ==
  \/ \E r \in Slots, p \in {HealthPath, MapsPath("search-places")} :
       Arrive(r, Some(Ip1), None, IF p = HealthPath THEN "GET" ELSE "POST", p)
  \/ \E r \in Slots : RateLimiter(r) /\ UNCHANGED spans
  \/ \E r \in Slots : AuthGate(r, None, None)
  \/ \E r \in Slots : Route(r, ValidBody)
  \/ \E r \in Slots : UpstreamReply(r, ReplyOf("OK"))
  \/ \E r \in Slots : Respond(r)
  \/ CleanupRateLimitStore
  \/ AdvanceClock(TickMs)

InitConcurrent == Init /\ env.API_KEY = None

SpecConcurrent == InitConcurrent /\ [][NextConcurrent]_vars

\* several clients, told apart by x-forwarded-for, x-real-ip or neither, one
\* request at a time: health checks and requests to an unmatched API path
NextClients ==
  \/ \E xff, xri \in {None, Some(<<>>), Some(Ip1), Some(Ip2)},
        p \in {HealthPath, <<"api", "nonexistent">>} :
       Arrive(1, xff, xri, "GET", p)
  \/ RateLimiter(1) /\ UNCHANGED spans
  \/ AuthGate(1, None, None)
  \/ Route(1, ValidBody)
  \/ Respond(1)
  \/ CleanupRateLimitStore
  \/ AdvanceClock(TickMs)

SpecClients == InitConcurrent /\ [][NextClients]_vars

\* one client posting every kind of body to the four endpoints
NextValidate ==
  \/ \E e \in Endpoints : Arrive(1, Some(Ip1), None, "POST", MapsPath(e))
  \/ RateLimiter(1) /\ UNCHANGED spans
  \/ AuthGate(1, None, None)
  \/ \E b \in ValidationBodies : Route(1, b)
  \/ UpstreamReply(1, ReplyOf("OK"))
  \/ Respond(1)
  \/ CleanupRateLimitStore
  \/ AdvanceClock(TickMs)

SpecValidate == InitConcurrent /\ [][NextValidate]_vars

\* one client posting valid bodies, the provider replying with every payload
NextGateway ==
  \/ \E e \in Endpoints : Arrive(1, Some(Ip1), None, "POST", MapsPath(e))
  \/ RateLimiter(1) /\ UNCHANGED spans
  \/ AuthGate(1, None, None)
  \/ Route(1, ValidBody)
  \/ /\ req[1].pc = "gateway"
     /\ \E o \in RepliesTo(HandlerOf(req[1].method, req[1].path)) \cup {CallFailed} :
          UpstreamReply(1, o)
  \/ Respond(1)
  \/ CleanupRateLimitStore
  \/ AdvanceClock(TickMs)

SpecGateway == InitConcurrent /\ [][NextGateway]_vars

\* two clients checking the health endpoint over a time long enough for the
\* sweep to find entries to remove
NextSweep ==
  \/ \E ip \in {Ip1, Ip2} : Arrive(1, Some(ip), None, "GET", HealthPath)
  \/ RateLimiter(1) /\ UNCHANGED spans
  \/ AuthGate(1, None, None)
  \/ Route(1, ValidBody)
  \/ Respond(1)
  \/ CleanupRateLimitStore
  \/ AdvanceClock(TickMs)
  \/ LongWait(CleanupGraceMs)

SpecSweep == InitConcurrent /\ [][NextSweep]_vars

\* two clients checking the health endpoint while an observer records when
\* each of them was admitted
NextSpans ==
  \/ \E ip \in {Ip1, Ip2} : Arrive(1, Some(ip), None, "GET", HealthPath)
  \/ RateLimiter(1) /\ ObserveSpans(1)
  \/ AuthGate(1, None, None)
  \/ Route(1, ValidBody)
  \/ Respond(1)
  \/ CleanupRateLimitStore
  \/ AdvanceClock(TickMs)

SpecSpans == InitConcurrent /\ [][NextSpans]_vars

----------------------------------------------------------------------------
(* Properties of the rate limiter *)

Denied(r) == req[r].res # None /\ req[r].res[1].status = 429

\* the rate limiter is about to check request r
Checking(r) == req[r].pc = "rateLimiter"
Checked(r) == req[r].pc = "rateLimiter" /\ req'[r].pc # "rateLimiter"

AdmissionsBounded ==
  /\ \A k \in DOMAIN win : win[k].n <= env.RATE_LIMIT_MAX_REQUESTS
  /\ \A r \in Slots : Denied(r) =>
       /\ req[r].pc = "done"
       /\ req[r].trace = <<"rateLimiter">>
       /\ req[r].res[1] = ErrorJson("RATE_LIMIT_EXCEEDED", 429)

DeniedOnceFull ==
  \A r \in Slots :
    (/\ Checked(r)
     /\ WindowOpen(req[r].key, now)
     /\ win[req[r].key].n = env.RATE_LIMIT_MAX_REQUESTS)
    => /\ req'[r].pc = "done"
       /\ req'[r].res = Some(ErrorJson("RATE_LIMIT_EXCEEDED", 429))
       /\ req'[r].trace = <<"rateLimiter">>

\* C1: within one window of a key at most maxRequests checks are admitted;
\* the check that follows maxRequests admissions in the window is answered
\* 429 RATE_LIMIT_EXCEEDED and reaches no later handler.
C1_AtMostMaxRequestsPerWindow == []AdmissionsBounded /\ [][DeniedOnceFull]_vars

\* a denied request of a key whose window holds exactly maxRequests admissions
C1_Witness ==
  \E r \in Slots :
    /\ Denied(r)
    /\ req[r].key \in DOMAIN win
    /\ win[req[r].key].n = env.RATE_LIMIT_MAX_REQUESTS
    /\ env.RATE_LIMIT_MAX_REQUESTS = MaxLimit

\* C2: every denied check reports retryAfterSeconds >= 1, also when it
\* arrives at the instant now = windowResetAt.
C2_RetryAfterAtLeastOne ==
  \A r \in Slots :
    (req[r].rl # None /\ req[r].rl[1].retryAfter # None)
    => req[r].rl[1].retryAfter[1] >= 1

\* C3: the first check after the window has elapsed (now > resetTime) is
\* allowed whatever the count was, and replaces the entry by count = 1 and
\* resetTime = now + windowMs.
C3_FreshWindowAfterExpiry ==
  [][\A r \in Slots :
       (/\ Checked(r)
        /\ req[r].key \in DOMAIN store
        /\ now > store[req[r].key].resetTime)
       => /\ req'[r].res = None
          /\ req'[r].pc \in {"auth", "route"}
          /\ store'[req[r].key] =
               [count |-> 1, resetTime |-> now + env.RATE_LIMIT_WINDOW_MS]]_vars

\* a request still holding its 429 while a later request of the same key has
\* just opened a new window
C3_Witness ==
  \E r, q \in Slots :
    /\ Denied(r)
    /\ req[q].key = req[r].key
    /\ req[q].rl # None /\ req[q].rl[1].retryAfter = None
    /\ req[q].rl[1].reset > req[r].rl[1].reset
    /\ req[q].rl[1].reset = now + env.RATE_LIMIT_WINDOW_MS
    /\ store[req[q].key] =
         [count |-> 1, resetTime |-> now + env.RATE_LIMIT_WINDOW_MS]

\* C4: whatever the interleaving of requests sharing a key, no increment is
\* lost: the stored count is the number of checks admitted in the window, and
\* it never exceeds maxRequests.
C4_NoLostIncrement ==
  \A k \in DOMAIN store \cap DOMAIN win :
    /\ store[k].resetTime = win[k].start + env.RATE_LIMIT_WINDOW_MS
    /\ store[k].count = win[k].n
    /\ store[k].count <= env.RATE_LIMIT_MAX_REQUESTS

\* two admitted requests of one key wait on the provider together
C4_Witness ==
  \E r, q \in Slots :
    /\ r # q
    /\ req[r].pc = "gateway" /\ req[q].pc = "gateway"
    /\ req[r].key = req[q].key
    /\ req[r].rl[1].reset = req[q].rl[1].reset
    /\ store[req[r].key].count = 2

----------------------------------------------------------------------------
(* Properties of the auth gate *)

InTrace(r, stage) == \E i \in 1..Len(req[r].trace) : req[r].trace[i] = stage

\* an API key is configured
Configured == env.API_KEY # None /\ env.API_KEY[1] # <<>>

Bearer(k) == Some(<<BearerPrefix>> \o k)

PresentsNoKey(r) == req[r].authHeader = None /\ req[r].apiKeyQuery = None
PresentsKey(r, k) ==
  \/ req[r].authHeader = Bearer(k)
  \/ req[r].authHeader = None /\ req[r].apiKeyQuery = Some(k)

RejectedWith(r, kind, status) ==
  /\ req[r].pc = "done"
  /\ req[r].res = Some(ErrorJson(kind, status))
  /\ req[r].trace = <<"rateLimiter", "authGate", "apiKeyAuth">>
  /\ req[r].calls = 0

AuthRejected(r) == req[r].res # None /\ req[r].res[1].status \in {401, 403}

\* the request went on to routing
PassedOn(r) ==
  /\ req[r].pc \in {"route", "gateway", "done"}
  /\ ~AuthRejected(r)
  /\ req[r].pc = "done" => req[r].trace[Len(req[r].trace)] \notin {"authGate", "apiKeyAuth"}

\* C5: with a configured key, apiKeyAuth answers a request without a key
\* 401 UNAUTHORIZED, a request with another key 403 FORBIDDEN, and passes a
\* request with the configured key on; a rejected request reaches no handler.
C5_ApiKeyAuthVerdicts ==
  Configured =>
    \A r \in Slots : InTrace(r, "apiKeyAuth") =>
      /\ PresentsNoKey(r) => RejectedWith(r, "UNAUTHORIZED", 401)
      /\ \A k \in {KeyA, KeyB} :
           (PresentsKey(r, k) /\ k # env.API_KEY[1]) => RejectedWith(r, "FORBIDDEN", 403)
      /\ PresentsKey(r, env.API_KEY[1]) => PassedOn(r)
      /\ AuthRejected(r) =>
           \/ RejectedWith(r, "UNAUTHORIZED", 401)
           \/ RejectedWith(r, "FORBIDDEN", 403)

\* a request without any key has been answered 401
C5_Witness ==
  \E r \in Slots :
    /\ Configured
    /\ PresentsNoKey(r)
    /\ HandlerOf(req[r].method, req[r].path) \in Endpoints
    /\ RejectedWith(r, "UNAUTHORIZED", 401)

\* C6: with no API key configured every request goes through to routing,
\* whatever credentials it carries.
C6_NoKeyConfiguredAllowsAll ==
  env.API_KEY \in {None, Some(<<>>)} =>
    \A r \in Slots : InTrace(r, "authGate") => PassedOn(r)

\* a request with a key in the header waits on the provider, no key configured
C6_Witness ==
  \E r \in Slots :
    /\ env.API_KEY = None
    /\ InTrace(r, "apiKeyAuth")
    /\ req[r].authHeader = Bearer(KeyB)
    /\ req[r].pc = "gateway"

\* the key an Authorization header holds
HeaderKey(h) == IF Len(h) >= 1 /\ h[1] = BearerPrefix THEN Tail(h) ELSE h

\* the decision on one provided key
DecisionOn(k) ==
  IF k = <<>> THEN "UNAUTHORIZED"
  ELSE IF k # env.API_KEY[1] THEN "FORBIDDEN"
  ELSE "next"

AuthOutcome(r) == IF AuthRejected(r) THEN req[r].res[1].error[1] ELSE "next"

BothCarried(r) == req[r].authHeader # None /\ req[r].apiKeyQuery # None

\* C7 as stated: with a header and a query parameter, the decision is the
\* decision on the header's key alone.
C7_HeaderAloneDecides ==
  Configured =>
    \A r \in Slots : (InTrace(r, "apiKeyAuth") /\ BothCarried(r)) =>
      AuthOutcome(r) = DecisionOn(HeaderKey(req[r].authHeader[1]))

\* C7 amended: with a query parameter and a header that holds a non-empty
\* key, the decision is the decision on the header's key alone.
C7_NonEmptyHeaderAloneDecides ==
  Configured =>
    \A r \in Slots :
      (/\ InTrace(r, "apiKeyAuth")
       /\ BothCarried(r)
       /\ HeaderKey(req[r].authHeader[1]) # <<>>) =>
      AuthOutcome(r) = DecisionOn(HeaderKey(req[r].authHeader[1]))

\* a wrong key in the header and the right one in the query: rejected
C7_Witness ==
  \E r \in Slots :
    /\ env.API_KEY = Some(KeyA)
    /\ req[r].authHeader = Bearer(KeyB)
    /\ req[r].apiKeyQuery = Some(KeyA)
    /\ RejectedWith(r, "FORBIDDEN", 403)

\* C8: a GET of the health check that the rate limiter admitted is never
\* rejected by the auth gate and is answered success with status healthy.
C8_HealthNeverRejected ==
  \A r \in Slots :
    (req[r].method = "GET" /\ req[r].path = HealthPath /\ InTrace(r, "authGate")) =>
      /\ ~InTrace(r, "apiKeyAuth")
      /\ ~AuthRejected(r)
      /\ req[r].pc \in {"route", "done"}
      /\ req[r].pc = "done" =>
           /\ req[r].res = Some(Json(200, Some(TRUE), Some("healthy"), None))
           /\ req[r].trace = <<"rateLimiter", "authGate", "health">>

\* a health check with a wrong key has been answered healthy
C8_Witness ==
  \E r \in Slots :
    /\ Configured
    /\ req[r].method = "GET" /\ req[r].path = HealthPath
    /\ req[r].authHeader = Bearer(KeyB)
    /\ req[r].pc = "done"
    /\ req[r].res[1].success = Some(TRUE)
    /\ req[r].res[1].data = Some("healthy")

----------------------------------------------------------------------------
(* Properties of the chain as a whole *)

StageRank(stage) ==
  CASE stage = "rateLimiter" -> 1
    [] stage = "authGate" -> 2
    [] stage = "apiKeyAuth" -> 3
    [] stage = "json" -> 4
    [] stage = "validate" -> 5
    [] stage = "gateway" -> 6
    [] OTHER -> 4

\* C9: an API request passes rate limiter, auth gate, validation and gateway
\* in this order: a request denied by the rate limiter never reaches the auth
\* gate, a request the auth gate rejects never reaches validation, and a body
\* that fails validation causes no provider call.
C9_StagesInOrder ==
  \A r \in Slots :
    LET t == req[r].trace IN
    /\ \A i, j \in 1..Len(t) : i < j => StageRank(t[i]) < StageRank(t[j])
    /\ Denied(r) => ~InTrace(r, "authGate") /\ ~InTrace(r, "apiKeyAuth")
    /\ AuthRejected(r) =>
         ~InTrace(r, "json") /\ ~InTrace(r, "validate") /\ ~InTrace(r, "gateway")
    /\ req[r].body \in {"unparseable", "violates schema"} =>
         ~InTrace(r, "gateway") /\ req[r].calls = 0 /\ req[r].pc = "done"
    /\ (InTrace(r, "gateway") \/ req[r].calls > 0) =>
         /\ InTrace(r, "rateLimiter") /\ InTrace(r, "authGate")
         /\ InTrace(r, "validate")
         /\ req[r].body = "valid"

\* a body that violates its schema has been answered 400 without a provider call
C9_Witness ==
  \E r \in Slots :
    /\ Configured
    /\ req[r].trace = <<"rateLimiter", "authGate", "apiKeyAuth", "json", "validate">>
    /\ req[r].res = Some(ErrorJson("VALIDATION_ERROR", 400))
    /\ req[r].calls = 0

\* C10: every response is an ApiResponse envelope: success = true comes with
\* data and without error, success = false with error and without data.
C10_EveryResponseIsEnvelope ==
  \A r \in Slots : req[r].res # None =>
    LET res == req[r].res[1] IN
    /\ res.success # None
    /\ res.success = Some(TRUE) => res.data # None /\ res.error = None
    /\ res.success = Some(FALSE) => res.error # None /\ res.data = None

----------------------------------------------------------------------------
(* Properties of the routes, the gateway and the error handler *)

OpOf(r) == HandlerOf(req[r].method, req[r].path)

\* the provider call of request r has come back
Replied(r) == req[r].upstream # None
UpstreamThrew(r) == Replied(r) /\ req[r].upstream[1].threw
UpstreamStatus(r) == req[r].upstream[1].status
UpstreamRefused(r) ==
  Replied(r) /\ ~req[r].upstream[1].threw
  /\ UpstreamStatus(r) \notin {"OK", "ZERO_RESULTS"}

\* C11: every upstream failure of a gateway operation, a non-success status
\* of the provider as well as a failed HTTP call to the provider, is answered
\* with HTTP 502 and error kind GOOGLE_MAPS_ERROR.
C11_UpstreamFailureIs502 ==
  \A r \in Slots :
    (UpstreamThrew(r) \/ UpstreamRefused(r)) =>
      req[r].res = Some(ErrorJson("GOOGLE_MAPS_ERROR", 502))

\* the body of request r has been read and is malformed
Malformed(r) == req[r].body \in {"unparseable", "violates schema"}

\* the details of the error response of request r
DetailsOf(r) == ErrorDetails(req[r].thrown[1])

\* C12: a POST to one of the four maps endpoints whose body violates the
\* endpoint's schema or is not JSON at all is answered 400 VALIDATION_ERROR
\* with per-field messages, never 500.
C12_MalformedInputIs400 ==
  \A r \in Slots :
    (OpOf(r) \in Endpoints /\ Malformed(r)) =>
      /\ req[r].res = Some(ErrorJson("VALIDATION_ERROR", 400))
      /\ DetailsOf(r) # None /\ DetailsOf(r)[1] # <<>>

\* request r has been answered with a success envelope
Succeeded(r) ==
  /\ req[r].res # None /\ req[r].thrown = None
  /\ req[r].res[1].status = 200 /\ req[r].res[1].success = Some(TRUE)

\* the operation of request r failed with an error whose message carries
\* the status, and no success response was produced
FailedWithStatus(r, status) ==
  /\ req[r].thrown # None
  /\ req[r].thrown[1].message = <<GoogleMapsErrorText, ": ", status>>
  /\ req[r].res # None
  /\ req[r].res[1].success = Some(FALSE) /\ req[r].res[1].data = None

\* C13: searchPlaces and getNearbyPlaces take exactly OK and ZERO_RESULTS for
\* success (ZERO_RESULTS giving an empty list), getPlaceDetails and
\* getDirections only OK; on every other status the operation fails with an
\* error whose message carries the status, and no success response is made.
C13_SuccessStatuses ==
  \A r \in Slots :
    (Replied(r) /\ ~UpstreamThrew(r)) =>
      LET status == UpstreamStatus(r)
          listing == OpOf(r) \in {"search-places", "nearby-places"}
      IN
      IF status = "OK" \/ (listing /\ status = "ZERO_RESULTS")
      THEN /\ Succeeded(r)
           /\ status = "ZERO_RESULTS" => req[r].res[1].data[1].value = <<>>
      ELSE FailedWithStatus(r, status)

\* a directions request that the provider answered ZERO_RESULTS has failed
C13_Witness ==
  \E r \in Slots :
    /\ OpOf(r) = "directions"
    /\ Replied(r) /\ UpstreamStatus(r) = "ZERO_RESULTS"
    /\ FailedWithStatus(r, "ZERO_RESULTS")
    /\ req[r].res[1].status = 502

\* what request r would have been answered had GOOGLE_MAPS_API_KEY been key
DataUnderKey(r, key) ==
  GatewayResult(OpOf(r), req[r].params[1], req[r].upstream[1].data, key)

\* C14: no response body contains the configured Google Maps API key: a run
\* that differs only in the value of GOOGLE_MAPS_API_KEY and receives the
\* same upstream payloads returns identical response bodies.
C14_ResponseIndependentOfGoogleKey ==
  \A r \in Slots :
    (Replied(r) /\ Succeeded(r)) =>
      req[r].res[1].data = Some(DataUnderKey(r, OtherGoogleKey))

----------------------------------------------------------------------------
(* Properties of validation *)

\* the parsed body of request r is an object
ReadObject(r) == req[r].json # None /\ req[r].json[1].object
Given(r, name) == req[r].json[1].f[name]

\* the issues reported to the client name the key
Reported(r, name) ==
  /\ req[r].res = Some(ErrorJson("VALIDATION_ERROR", 400))
  /\ \E i \in 1..Len(DetailsOf(r)[1]) : DetailsOf(r)[1][i].path = name

DefaultRadius(op) == IF op = "search-places" THEN 5000 ELSE 1500

\* C15: a search-places (or nearby-places) body whose radius lies outside
\* [1, 50000] fails validation with an issue on radius and the gateway is not
\* called; a body that omits radius has no issue on radius and is validated
\* with radius 5000 (1500 for nearby-places).
C15_RadiusRangeAndDefault ==
  \A r \in Slots :
    (OpOf(r) \in {"search-places", "nearby-places"} /\ ReadObject(r)) =>
      LET radius == Given(r, "radius") IN
      /\ (radius # None /\ radius[1].t = "number"
          /\ (radius[1].n < 1 \/ radius[1].n > 50000)) =>
           /\ Reported(r, "radius")
           /\ req[r].calls = 0 /\ ~InTrace(r, "gateway") /\ ~Replied(r)
      /\ radius = None =>
           /\ ~Reported(r, "radius")
           /\ req[r].body = "valid" =>
                /\ req[r].params # None
                /\ req[r].params[1]["radius"] = Some(Num(DefaultRadius(OpOf(r))))

\* a search with radius 50001 has been refused for its radius alone, and no
\* provider call was made
C15_Witness ==
  \E r \in Slots :
    /\ OpOf(r) = "search-places" /\ ReadObject(r)
    /\ Given(r, "radius") = Some(Num(50001))
    /\ DetailsOf(r) = Some(<<[path |-> "radius",
                              message |-> "Number must be less than or equal to 50000"]>>)
    /\ req[r].calls = 0

\* the keys of the endpoint's schema whose constraint the object violates
IsString(v) == v # None /\ v[1].t = "string"
BadRequiredString(v) == ~IsString(v) \/ v[1].s = <<>>
BadOptionalString(v) == v # None /\ ~IsString(v)
BadRadius(v) ==
  v # None /\ (v[1].t # "number" \/ v[1].n < 1 \/ v[1].n > 50000)
BadMode(v) ==
  v # None /\ (~IsString(v) \/ v[1].s \notin
                 {<<"driving">>, <<"walking">>, <<"bicycling">>, <<"transit">>})

Violated(op, f) ==
  CASE op = "search-places" ->
         {n \in {"query"} : BadRequiredString(f[n]) \/ Len(f[n][1].s) > 500}
         \cup {n \in {"location", "type"} : BadOptionalString(f[n])}
         \cup {n \in {"radius"} : BadRadius(f[n])}
    [] op = "nearby-places" ->
         {n \in {"location"} : BadRequiredString(f[n])}
         \cup {n \in {"type", "keyword"} : BadOptionalString(f[n])}
         \cup {n \in {"radius"} : BadRadius(f[n])}
    [] op = "place-details" -> {n \in {"placeId"} : BadRequiredString(f[n])}
    [] op = "directions" ->
         {n \in {"origin", "destination"} : BadRequiredString(f[n])}
         \cup {n \in {"mode"} : BadMode(f[n])}

\* C16: when the body violates several constraints of its endpoint's schema
\* at once, the details of the 400 response hold one {path, message} item for
\* every violated constraint, not only the first.
C16_EveryViolationReported ==
  \A r \in Slots :
    (OpOf(r) \in Endpoints /\ ReadObject(r)
     /\ Violated(OpOf(r), req[r].json[1].f) # {}) =>
      /\ req[r].res = Some(ErrorJson("VALIDATION_ERROR", 400))
      /\ DetailsOf(r) # None
      /\ Len(DetailsOf(r)[1]) = Cardinality(Violated(OpOf(r), req[r].json[1].f))
      /\ \A n \in Violated(OpOf(r), req[r].json[1].f) :
           \E i \in 1..Len(DetailsOf(r)[1]) : DetailsOf(r)[1][i].path = n

\* directions with an empty origin, an empty destination and the mode flying
\* have been answered with the three issues
C16_Witness ==
  \E r \in Slots :
    /\ OpOf(r) = "directions" /\ ReadObject(r)
    /\ Given(r, "origin") = Some(Str(<<>>))
    /\ Given(r, "destination") = Some(Str(<<>>))
    /\ Given(r, "mode") = Some(Str(<<"flying">>))
    /\ req[r].res = Some(ErrorJson("VALIDATION_ERROR", 400))
    /\ DetailsOf(r) =
         Some(<<[path |-> "origin", message |-> "Origin is required"],
                [path |-> "destination", message |-> "Destination is required"],
                [path |-> "mode", message |-> "Invalid enum value"]>>)

----------------------------------------------------------------------------
(* Properties of the gateway's normalization *)

\* the places of the upstream payload of request r and their normalizations
PlacesIn(r) ==
  IF OpOf(r) = "place-details" THEN <<req[r].upstream[1].data.result>>
  ELSE req[r].upstream[1].data.results
PlacesOut(r) ==
  IF OpOf(r) = "place-details" THEN <<req[r].res[1].data[1].value>>
  ELSE req[r].res[1].data[1].value

EmbedUrl(query) ==
  <<"https://www.google.com/maps/embed/v1/place?key=">>
    \o env.GOOGLE_MAPS_API_KEY \o <<"&q=">> \o EncodeURIComponent(query)

HasCoordinates(place) ==
  /\ place.geometry # None /\ place.geometry[1].location # None
  /\ place.geometry[1].location[1].lat # None
  /\ place.geometry[1].location[1].lng # None

\* the embed query as the claim has it
EmbedQueryAsClaimed(place, out) ==
  /\ Truthy(place.place_id) =>
       out.embedMapUrl = EmbedUrl(<<"place_id", ":">> \o place.place_id[1])
  /\ (~Truthy(place.place_id) /\ HasCoordinates(place)) =>
       out.embedMapUrl =
         EmbedUrl(<<place.geometry[1].location[1].lat[1].v, ",",
                    place.geometry[1].location[1].lng[1].v>>)

\* C17: for every upstream place payload normalized by formatPlaceResult,
\* also one with no geometry, googleMapsUrl and embedMapUrl are present and
\* non-empty, and the embed query is place_id:<id> when an identifier is
\* available and <lat>,<lng> otherwise.
C17_PlaceUrlsPresent ==
  \A r \in Slots :
    (OpOf(r) \in {"search-places", "nearby-places", "place-details"}
     /\ Replied(r) /\ Succeeded(r)) =>
      /\ Len(PlacesOut(r)) = Len(PlacesIn(r))
      /\ \A i \in 1..Len(PlacesIn(r)) :
           /\ PlacesOut(r)[i].googleMapsUrl # <<>>
           /\ PlacesOut(r)[i].embedMapUrl # <<>>
           /\ EmbedQueryAsClaimed(PlacesIn(r)[i], PlacesOut(r)[i])

\* C18: whatever the number of reviews of the place-details payload, the
\* normalized PlaceDetails holds at most 5 reviews, the first min(5, n)
\* upstream reviews in their original order.
C18_FirstFiveReviews ==
  \A r \in Slots :
    (OpOf(r) = "place-details" /\ Replied(r) /\ Succeeded(r)
     /\ req[r].upstream[1].data.result.reviews # None) =>
      LET given == req[r].upstream[1].data.result.reviews[1]
          kept == req[r].res[1].data[1].value.reviews
      IN /\ kept # None
         /\ Len(kept[1]) <= 5
         /\ Len(kept[1]) = (IF Len(given) < 5 THEN Len(given) ELSE 5)
         /\ \A i \in 1..Len(kept[1]) :
              /\ kept[1][i].authorName = given[i].author_name
              /\ kept[1][i].rating = given[i].rating
              /\ kept[1][i].text = given[i].text
              /\ kept[1][i].time = given[i].time

\* a payload of MaxReviews reviews has been cut to its first five
C18_Witness ==
  \E r \in Slots :
    /\ OpOf(r) = "place-details" /\ Replied(r) /\ Succeeded(r)
    /\ req[r].upstream[1].data.result.reviews = Some(Reviews(MaxReviews))
    /\ MaxReviews > 5
    /\ Len(req[r].res[1].data[1].value.reviews[1]) = 5
    /\ req[r].res[1].data[1].value.reviews[1][5].authorName
         = Reviews(MaxReviews)[5].author_name

\* the steps of the upstream route of request r and their normalizations
StepsIn(r) == req[r].upstream[1].data.routes[1].legs[1].steps
StepsOut(r) == req[r].res[1].data[1].value.steps

Has(text, c) == \E i \in 1..Len(text) : text[i] = c

\* the text holds a tag: a '<' with a '>' after it
HasMarkup(text) ==
  \E i, j \in 1..Len(text) : i < j /\ text[i] = "<" /\ text[j] = ">"

\* every '<' and every '>' of the text belongs to a tag <...>
RECURSIVE OnlyTags(_, _)
OnlyTags(text, inTag) ==
  IF text = <<>> THEN ~inTag
  ELSE IF Head(text) = "<" THEN ~inTag /\ OnlyTags(Tail(text), TRUE)
  ELSE IF Head(text) = ">" THEN inTag /\ OnlyTags(Tail(text), FALSE)
  ELSE OnlyTags(Tail(text), inTag)

\* the characters of the text outside its tags
RECURSIVE OutsideTags(_, _)
OutsideTags(text, inTag) ==
  IF text = <<>> THEN <<>>
  ELSE IF Head(text) = "<" THEN OutsideTags(Tail(text), TRUE)
  ELSE IF Head(text) = ">" THEN OutsideTags(Tail(text), FALSE)
  ELSE IF inTag THEN OutsideTags(Tail(text), inTag)
  ELSE <<Head(text)>> \o OutsideTags(Tail(text), inTag)

DirectionsAnswered(r) ==
  OpOf(r) = "directions" /\ Replied(r) /\ Succeeded(r)

\* C19: for every upstream step whose instruction text contains HTML markup,
\* the normalized instruction contains neither '<' nor '>'.
C19_NoAngleBrackets ==
  \A r \in Slots : DirectionsAnswered(r) =>
    \A i \in 1..Len(StepsIn(r)) :
      HasMarkup(StepsIn(r)[i].html_instructions) =>
        /\ ~Has(StepsOut(r)[i].instruction, "<")
        /\ ~Has(StepsOut(r)[i].instruction, ">")

\* C19 (amended): no tag is left in a normalized instruction, that is no '<'
\* with a '>' after it; when every '<' and '>' of the upstream text belongs to
\* a tag, the instruction contains neither character and is the text outside
\* the tags.
C19_NoTagRemains ==
  \A r \in Slots : DirectionsAnswered(r) =>
    /\ Len(StepsOut(r)) = Len(StepsIn(r))
    /\ \A i \in 1..Len(StepsIn(r)) :
         LET html == StepsIn(r)[i].html_instructions
             text == StepsOut(r)[i].instruction
         IN /\ ~HasMarkup(text)
            /\ OnlyTags(html, FALSE) =>
                 /\ ~Has(text, "<") /\ ~Has(text, ">")
                 /\ text = OutsideTags(html, FALSE)

\* an instruction x<x>x has been normalized to xx
C19_Witness ==
  \E r \in Slots :
    /\ DirectionsAnswered(r)
    /\ StepsIn(r)[1].html_instructions = <<"x", "<", "x", ">">>
    /\ StepsOut(r)[1].instruction = <<"x">>

----------------------------------------------------------------------------
(* Properties of the rate-limit headers *)

----------------------------------------------------------------------------
(* Further properties of the rate limiter *)

\* the check of request r is answered 429 in this step
DeniedNow(r) ==
  Checked(r) /\ req'[r].res # None /\ req'[r].res[1].status = 429

\* C21: a denied check leaves the store unchanged: the key's count and
\* resetTime are the same before and after it, so repeated denied requests
\* neither raise the count nor extend the window.
C21_DeniedCheckWritesNothing ==
  [][\A r \in Slots : DeniedNow(r) => store' = store]_vars

\* two requests of one key denied in the same window, the entry still at
\* count = maxRequests and at the resetTime both were told
C21_Witness ==
  \E r, q \in Slots :
    /\ r # q /\ Denied(r) /\ Denied(q)
    /\ req[r].key = req[q].key
    /\ store[req[r].key].count = env.RATE_LIMIT_MAX_REQUESTS
    /\ store[req[r].key].resetTime = req[r].rl[1].reset
    /\ store[req[r].key].resetTime = req[q].rl[1].reset

\* the entry of key k in a rate limiter on which the sweep never runs
NeverSweptEntry(k) ==
  [count |-> win[k].n, resetTime |-> win[k].start + env.RATE_LIMIT_WINDOW_MS]

\* what that rate limiter answers to a check of key k at time t
NeverSweptDecision(k, t) ==
  LET maxRequests == env.RATE_LIMIT_MAX_REQUESTS IN
  IF k \notin DOMAIN win \/ t > NeverSweptEntry(k).resetTime THEN
    [denied |-> FALSE,
     rl |-> [limit |-> maxRequests, remaining |-> Max(0, maxRequests - 1),
             reset |-> t + env.RATE_LIMIT_WINDOW_MS, retryAfter |-> None]]
  ELSE IF NeverSweptEntry(k).count >= maxRequests THEN
    [denied |-> TRUE,
     rl |-> [limit |-> maxRequests, remaining |-> 0,
             reset |-> NeverSweptEntry(k).resetTime,
             retryAfter |-> Some(CeilDiv(NeverSweptEntry(k).resetTime - t, 1000))]]
  ELSE
    [denied |-> FALSE,
     rl |-> [limit |-> maxRequests,
             remaining |-> Max(0, maxRequests - (NeverSweptEntry(k).count + 1)),
             reset |-> NeverSweptEntry(k).resetTime, retryAfter |-> None]]

\* C22: the sweep never changes a decision: with cleanupRateLimitStore run at
\* arbitrary points, every check gets the decision, the retryAfter and the
\* header values that a rate limiter never swept gives it.
C22_SweepChangesNoDecision ==
  [][\A r \in Slots : Checked(r) =>
       /\ DeniedNow(r) = NeverSweptDecision(req[r].key, now).denied
       /\ req'[r].rl = Some(NeverSweptDecision(req[r].key, now).rl)]_vars

\* the sweep has removed the entry of one key, and a check made after the
\* long wait has been admitted into a new window
C22_Witness ==
  /\ \E k \in DOMAIN win : k \notin DOMAIN store
  /\ \E r \in Slots :
       /\ req[r].rl # None /\ req[r].rl[1].retryAfter = None
       /\ req[r].rl[1].reset > CleanupGraceMs
       /\ req[r].key \in DOMAIN store

\* C23: for every configured windowMs, a run of the sweep removes exactly
\* the entries whose resetTime is more than windowMs in the past and leaves
\* every other entry untouched.
C23_SweepRemovesEntriesOneWindowOld ==
  [][CleanupRateLimitStore =>
       store' = [k \in {ip \in DOMAIN store :
                          ~(now - store[ip].resetTime > env.RATE_LIMIT_WINDOW_MS)}
                   |-> store[k]]]_vars

----------------------------------------------------------------------------
(* Properties of failure handling *)

\* the provider call of request r came back and the operation threw
GatewayFailed(r) == Replied(r) /\ req[r].thrown # None

\* C24: nothing is retried: a request causes at most one call to the
\* provider, and when that call fails the request is answered at once with
\* an error response and no further call is made for it.
C24_NoRetry ==
  \A r \in Slots :
    /\ req[r].calls <= 1
    /\ req[r].pc = "gateway" => req[r].calls = 1 /\ ~Replied(r)
    /\ Replied(r) => req[r].calls = 1 /\ req[r].pc = "done"
    /\ (UpstreamThrew(r) \/ UpstreamRefused(r)) =>
         /\ GatewayFailed(r)
         /\ req[r].res # None /\ req[r].res[1].success = Some(FALSE)

\* a directions request whose provider call failed has been answered with an
\* error after its single call
C24_Witness ==
  \E r \in Slots :
    /\ OpOf(r) = "directions" /\ UpstreamThrew(r)
    /\ req[r].calls = 1 /\ req[r].pc = "done"
    /\ req[r].res[1].success = Some(FALSE)

----------------------------------------------------------------------------
(* Further properties of the gateway's normalization *)

\* the same coordinate given as a plain number
AsNumber(c) == IF c = None THEN None ELSE Some([kind |-> "number", v |-> c[1].v])

\* the same payload with latitude and longitude given as plain numbers
WithPlainCoordinates(place) ==
  IF place.geometry = None \/ place.geometry[1].location = None THEN place
  ELSE [place EXCEPT !.geometry =
          Some([location |->
                  Some([lat |-> AsNumber(place.geometry[1].location[1].lat),
                        lng |-> AsNumber(place.geometry[1].location[1].lng)])])]

PlaceResultFields ==
  {"placeId", "name", "address", "location", "rating", "userRatingsTotal",
   "types", "businessStatus", "priceLevel", "photoUrl", "googleMapsUrl",
   "embedMapUrl"}

\* C25: place normalization is independent of the coordinate representation:
\* for every upstream place payload, with or without an identifier, the
\* PlaceResult (its location and embedMapUrl among the rest) is the one that
\* the payload with plain-number coordinates gets.
C25_CoordinateFormIrrelevant ==
  \A r \in Slots :
    (OpOf(r) \in {"search-places", "nearby-places", "place-details"}
     /\ Replied(r) /\ Succeeded(r)) =>
      \A i \in 1..Len(PlacesIn(r)) :
        \A f \in PlaceResultFields :
          PlacesOut(r)[i][f] =
            FormatPlaceResult(WithPlainCoordinates(PlacesIn(r)[i]),
                              env.GOOGLE_MAPS_API_KEY)[f]

----------------------------------------------------------------------------
(* Further properties of failure handling *)

\* the provider call of request r failed or came back with a status that the
\* operation does not take for success
UpstreamFailure(r) ==
  /\ Replied(r)
  /\ \/ req[r].upstream[1].threw
     \/ UpstreamStatus(r) \notin
          (IF OpOf(r) \in {"search-places", "nearby-places"}
           THEN {"OK", "ZERO_RESULTS"} ELSE {"OK"})

FailureSurfaced ==
  \A r \in Slots : UpstreamFailure(r) =>
    /\ req[r].thrown # None
    /\ req[r].log = <<[method |-> MethodOf(OpOf(r)),
                       message |-> req[r].thrown[1].message]>>
    /\ UpstreamStatus(r) # "" =>
         req[r].thrown[1].message = <<GoogleMapsErrorText, ": ", UpstreamStatus(r)>>
    /\ ~Succeeded(r)
    /\ req[r].pc = "done"
    /\ req[r].res = Some(ErrorHandler(req[r].thrown[1]))
    /\ req[r].res[1].success = Some(FALSE) /\ req[r].res[1].data = None

AnsweredOnce ==
  \A r \in Slots :
    req[r].res # None => (req'[r].res = req[r].res \/ req'[r] = Idle)

\* C26: the gateway never swallows a failure: when the provider call fails
\* or returns a non-success status, the error is logged and re-raised, no
\* success envelope is returned, and the request is answered exactly once,
\* by the error handler, with success = false.
C26_FailureNeverSwallowed == []FailureSurfaced /\ [][AnsweredOnce]_vars

\* a place-details request refused by the provider has been logged by
\* getPlaceDetails and answered by the error handler
C26_Witness ==
  \E r \in Slots :
    /\ OpOf(r) = "place-details"
    /\ Replied(r) /\ UpstreamStatus(r) = "INVALID_REQUEST"
    /\ req[r].log = <<[method |-> "getPlaceDetails",
                       message |-> <<GoogleMapsErrorText, ": ", "INVALID_REQUEST">>]>>
    /\ req[r].res = Some(ErrorJson("GOOGLE_MAPS_ERROR", 502))

----------------------------------------------------------------------------
(* Further properties of the rate limiter's keys *)

KeysIsolated ==
  \A r \in Slots : Checked(r) =>
    LET k == req[r].key IN
    /\ DOMAIN store' = DOMAIN store \cup {k}
    /\ \A j \in DOMAIN store \ {k} : store'[j] = store[j]
    /\ (req'[r].res # None /\ req'[r].res[1].status = 429)
         <=> (WindowOpen(k, now) /\ win[k].n >= env.RATE_LIMIT_MAX_REQUESTS)

NoAddressMeansUnknown ==
  \A r \in Slots :
    (\E p \in {HealthPath, <<"api", "nonexistent">>} :
       Arrive(r, None, None, "GET", p)) => req'[r].key = Unknown

\* C27: keys are isolated: a check for one key leaves every other key's
\* entry unchanged, its decision depends only on the earlier checks of that
\* key and the clock, and requests with neither x-forwarded-for nor
\* x-real-ip all share the key "unknown".
C27_KeysIsolated == [][KeysIsolated /\ NoAddressMeansUnknown]_vars

\* two requests without an address have used up the quota of "unknown"
\* while the first request of 10.0.0.1 finds its own quota untouched
C27_Witness ==
  /\ Unknown \in DOMAIN store /\ Ip1 \in DOMAIN store
  /\ env.RATE_LIMIT_MAX_REQUESTS = 2
  /\ store[Unknown].count = 2 /\ now <= store[Unknown].resetTime
  /\ store[Ip1].count = 1
  /\ req[1].key = Ip1 /\ req[1].rl # None /\ req[1].rl[1].remaining = 1

----------------------------------------------------------------------------
(* Further properties of the auth gate *)

\* request r carries the configured key where apiKeyAuth looks for it
CarriesConfiguredKey(r) ==
  LET k == env.API_KEY[1] IN
  \/ req[r].authHeader \in {Some(k), Bearer(k)}
  \/ req[r].authHeader \in {None, Some(<<>>)} /\ req[r].apiKeyQuery = Some(k)

\* request r got as far as a protected handler
ReachedHandler(r) ==
  \/ req[r].calls > 0
  \/ req[r].pc = "gateway"
  \/ InTrace(r, "json") \/ InTrace(r, "validate") \/ InTrace(r, "gateway")
  \/ req[r].upstream # None

UnderExemption(r) ==
  /\ req[r].pc # "idle"
  /\ MatchesMaps(req[r].path) /\ Len(req[r].path) > 2
  /\ req[r].path[Len(req[r].path)] = "health"

\* C28: with an API key configured, no request lacking the configured key
\* ever triggers a gateway operation, and a request exempted as a health
\* check (a path under /api/maps/ ending in /health) reaches no protected
\* handler.
C28_NoGatewayWithoutKey ==
  \A r \in Slots :
    /\ (Configured /\ ReachedHandler(r)) =>
         /\ CarriesConfiguredKey(r)
         /\ InTrace(r, "apiKeyAuth")
         /\ ~UnderExemption(r)
    /\ UnderExemption(r) => ~ReachedHandler(r)

\* a POST without a key to /api/maps/search-places/health has passed the
\* exemption and been answered not found
C28_Witness ==
  \E r \in Slots :
    /\ Configured
    /\ req[r].method = "POST"
    /\ req[r].path = <<"api", "maps", "search-places", "health">>
    /\ PresentsNoKey(r)
    /\ req[r].trace = <<"rateLimiter", "authGate", "notFound">>
    /\ req[r].res = Some(NotFoundJson)

----------------------------------------------------------------------------
(* Further properties of the quota *)

\* request r is past the rate limiter and was not denied by it
Admitted(r) == req[r].pc \notin {"idle", "rateLimiter"} /\ ~Denied(r)

\* an admitted request under /api holds one unit of its key's window: the
\* entry carries the count and the reset time its headers were computed from
QuotaHeld ==
  \A r \in Slots : (Admitted(r) /\ MatchesApi(req[r].path)) =>
    /\ InTrace(r, "rateLimiter") /\ req[r].rl # None
    /\ req[r].key \in DOMAIN store
    /\ store[req[r].key].count >= 1
    /\ store[req[r].key].count <= env.RATE_LIMIT_MAX_REQUESTS
    /\ store[req[r].key].count =
         env.RATE_LIMIT_MAX_REQUESTS - req[r].rl[1].remaining
    /\ store[req[r].key].resetTime = req[r].rl[1].reset

\* an admitting check adds one to the count of the open window or opens a
\* window with count one; no later step of a request gives the unit back
QuotaConsumed ==
  \A r \in Slots :
    /\ (Checked(r) /\ req'[r].pc # "done") =>
         store'[req[r].key].count =
           IF req[r].key \in DOMAIN store /\ now <= store[req[r].key].resetTime
           THEN store[req[r].key].count + 1 ELSE 1
    /\ (req[r].pc \in {"auth", "route", "gateway", "done"} /\ req'[r] # req[r]) =>
         store' = store

\* C29: every request under /api that the rate limiter admits consumes one
\* unit of quota, whatever becomes of it afterwards: a request answered 401,
\* 403, 400, 502 or 404 and a health check count like a success.
C29_AdmittedRequestConsumesQuota == []QuotaHeld /\ [][QuotaConsumed]_vars

\* a request without a key, answered 401, has used up the last unit
C29_Witness ==
  \E r \in Slots :
    /\ Configured /\ env.RATE_LIMIT_MAX_REQUESTS = 2
    /\ req[r].res = Some(ErrorJson("UNAUTHORIZED", 401))
    /\ store[req[r].key].count = 2
    /\ req[r].rl[1].remaining = 0

----------------------------------------------------------------------------
(* Admissions in a sliding span *)

\* the admissions of key k in the windowMs milliseconds that end with its
\* latest check
AdmittedInSpan(k) == Len(spans[k])

\* C30 as stated: for every key and every span of windowMs milliseconds,
\* wherever it starts, at most maxRequests requests of the key are admitted
\* within the span.
C30_AtMostMaxRequestsPerSpan ==
  \A k \in DOMAIN spans : AdmittedInSpan(k) <= env.RATE_LIMIT_MAX_REQUESTS

\* C30: the windows are fixed, so a span of windowMs milliseconds can take
\* in the end of one window and the start of the next: it holds at most
\* 2 * maxRequests - 1 admissions of a key (all of a window but the request
\* that opened it, and all of the next), and at most maxRequests of them
\* belong to one window.
C30_AtMostTwoWindowsPerSpan ==
  \A k \in DOMAIN spans :
    /\ AdmittedInSpan(k) <= 2 * env.RATE_LIMIT_MAX_REQUESTS - 1
    /\ win[k].n <= env.RATE_LIMIT_MAX_REQUESTS
    /\ \A i \in 1..Len(spans[k]) :
         /\ spans[k][i] > win[k].start - env.RATE_LIMIT_WINDOW_MS
         /\ spans[k][i] <= now
    /\ Len(SelectSeq(spans[k], LAMBDA a : a >= win[k].start)) <= win[k].n

\* with maxRequests = 2, three requests of one key have been admitted in a
\* span of windowMs: the second of a window one tick before its end and both
\* of the next window
C30_Witness ==
  \E k \in DOMAIN spans :
    /\ env.RATE_LIMIT_MAX_REQUESTS = 2
    /\ AdmittedInSpan(k) = 3
    /\ spans[k][1] < win[k].start
    /\ spans[k][3] - spans[k][1] < env.RATE_LIMIT_WINDOW_MS
    /\ win[k].n = 2

====
